---- MODULE Spec2Model ----
(***************************************************************************)
(* Model of the two ESXi on-box upgrade scripts of this repository:        *)
(*   src/esxi_onbox_upgrade_v4.py  (script = "v4")                         *)
(*   src/upgrade-script.py         (script = "us")                         *)
(* Each action is one step of the script that issues one command to the    *)
(* ESXi shell (sendcommand_onbox / os.popen) and consumes its output.  The *)
(* host is an unconstrained environment: every output text of a command is *)
(* drawn from a small set of texts, and the scripts' parsing functions are *)
(* operators applied to these texts.                                       *)
(*                                                                         *)
(* A text is a sequence of tokens (strings); "\n", " ", "=", ":", "\"" and *)
(* "," are tokens of their own, so that split / replace / strip / `in` act *)
(* on the text as the Python string methods do.                            *)
(***************************************************************************)
EXTENDS Integers, Sequences, FiniteSets, TLC

\* ---------------------------------------------------------------- bounds
\* Number of distinct VM ids, and of lines of the getallvms listing.
MaxVMs == 2

\* ------------------------------------------------------ program constants
MAINTENANCE_MODE_TIMEOUT == 45
SHUTDOWN_TIMEOUT_PER_VM == 10
MM_EXIT_POLLS == 5

UPGRADE_FILENAME == "VMware-ESXi-8.0U3-24022510-depot.zip"
us_file_name == "VMware-ESXi-7.0U2c-18426014-depot.zip"

\* --------------------------------------------------------- Python values
PyNone == "<None>"
IndexError == "<IndexError>"
NotFound == "<no matching line>"

\* -------------------------------------------------- string-method models
Whitespace == {" ", "\n", "\t"}

Min(S) == CHOOSE m \in S : \A n \in S : m <= n

\* `tok in s`
Contains(s, tok) == \E i \in 1..Len(s) : s[i] = tok

\* s.split(sep)
RECURSIVE Split(_, _)
Split(s, sep) ==
    IF ~Contains(s, sep) THEN <<s>>
    ELSE LET p == Min({i \in 1..Len(s) : s[i] = sep})
         IN  <<SubSeq(s, 1, p - 1)>> \o Split(SubSeq(s, p + 1, Len(s)), sep)

\* s.replace(tok, '')
Remove(s, tok) == SelectSeq(s, LAMBDA t : t # tok)

\* s.strip()
RECURSIVE LStrip(_)
LStrip(s) == IF s # <<>> /\ Head(s) \in Whitespace THEN LStrip(Tail(s)) ELSE s

RECURSIVE RStrip(_)
RStrip(s) ==
    IF s # <<>> /\ s[Len(s)] \in Whitespace THEN RStrip(SubSeq(s, 1, Len(s) - 1)) ELSE s

Strip(s) == RStrip(LStrip(s))

\* the string a token sequence spells
RECURSIVE Join(_)
Join(s) == IF s = <<>> THEN "" ELSE Head(s) \o Join(Tail(s))

\* s.lower(), on the strings the host texts below can spell
Lower(s) ==
    CASE s = "toolsOk" -> "toolsok"
      [] s = "TOOLSOK" -> "toolsok"
      [] s = "toolsOld" -> "toolsold"
      [] s = "toolsNotInstalled" -> "toolsnotinstalled"
      [] s = "toolsNotRunning" -> "toolsnotrunning"
      [] s = "toolsTooNew" -> "toolstoonew"
      [] s = "Enabled" -> "enabled"
      [] s = "Disabled" -> "disabled"
      [] s = "Connection refused" -> "connection refused"
      [] OTHER -> s

\* The shared extraction of both scripts: the first line containing the key
\* token, line.split("=")[1].replace('"', '').replace(',', '').strip().
\* A matching line without "=" makes [1] raise IndexError.
FieldOf(text, key) ==
    LET lines == Split(text, "\n")
        hits == {i \in 1..Len(lines) : Contains(lines[i], key)}
    IN  IF hits = {} THEN NotFound
        ELSE LET parts == Split(lines[Min(hits)], "=")
             IN  IF Len(parts) < 2 THEN IndexError
                 ELSE Join(Strip(Remove(Remove(parts[2], "\""), ",")))

\* ------------------------------------------------------------ host texts
SummaryLine(v) == <<" ", "powerState", " ", "=", " ", "\"", v, "\"", ",", " ", "\n">>

SummaryTexts ==
    { <<"(vim.vm.Summary) {", "\n">> \o SummaryLine("poweredOn") \o <<"}", "\n">>,
      SummaryLine("poweredOff"),
      SummaryLine("suspended"),
      <<>>,
      <<"powerState", " ", "unavailable", "\n">> }

GuestLine(v) == <<" ", "toolsStatus", " ", "=", " ", "\"", v, "\"", ",", " ", "\n">>

GuestTexts ==
    { <<"(vim.vm.GuestInfo) {", "\n">> \o GuestLine("toolsOk"),
      GuestLine("toolsOld"),
      GuestLine("TOOLSOK"),
      GuestLine("toolsNotInstalled"),
      GuestLine("toolsNotRunning"),
      GuestLine("toolsTooNew"),
      <<>>,
      <<"toolsStatus", " ", "unset", "\n">> }

MaintenanceTexts ==
    { <<"Enabled", "\n">>, <<"Disabled", "\n">>, <<"enabled">>, <<>>,
      <<"Connection refused", "\n">> }

SuccessMarker == "The update completed successfully"
RebootMarker == "Reboot Required: true"

UpgradeTexts ==
    { <<"Update Result", "\n", "Message: ", SuccessMarker, ", but the system needs to be rebooted", "\n",
        RebootMarker, "\n">>,
      <<"Update Result", "\n", "Message: ", SuccessMarker, "\n", "Reboot Required: false", "\n">>,
      <<"Update Result", "\n", "Message: ", "Host is not changed.", "\n", RebootMarker, "\n">>,
      <<" [DependencyError]", "\n">>,
      <<>> }

DirectoryTexts ==
    { <<"total 8", "\n", "-rw-r--r-- 1 root root ", UPGRADE_FILENAME, "\n">>,
      <<"total 8", "\n", "-rw-r--r-- 1 root root ", us_file_name, "\n">>,
      <<"total 0", "\n">>,
      <<>> }

VmIds == {ToString(n) : n \in 1..MaxVMs}
DigitStrings == {ToString(n) : n \in 0..(MaxVMs + 9)}

\* First fields of the lines of `vim-cmd vmsvc/getallvms | tail -n+2`: the
\* listing is in ascending Vmid order; a line that is no VM row (a wrapped
\* annotation, a header) starts with a word, and a row may come twice.
FieldOfRow(n) == IF n = 0 THEN "Vmid" ELSE ToString(n)
Ascending(f) ==
    \A i, j \in DOMAIN f : (i < j /\ f[i] # 0 /\ f[j] # 0) => f[i] <= f[j]
Listings ==
    { [i \in DOMAIN f |-> FieldOfRow(f[i])] :
        f \in {g \in UNION {[1..k -> 0..MaxVMs] : k \in 0..(MaxVMs + 1)} : Ascending(g)} }

\* `awk '{print $1}'`: one field per line
RECURSIVE ListingText(_)
ListingText(fields) ==
    IF fields = <<>> THEN <<>> ELSE <<Head(fields), "\n">> \o ListingText(Tail(fields))

\* `awk '{print $1":"$2}'`: field, colon, name per line
RECURSIVE us_ListingText(_)
us_ListingText(fields) ==
    IF fields = <<>> THEN <<>>
    ELSE <<Head(fields), ":", "vm-name", "\n">> \o us_ListingText(Tail(fields))

\* ------------------------------------------------------ parsing functions
\* str.isdigit()
IsDigit(s) == s \in DigitStrings

\* insertion into a dict keyed by vmid: a key already present keeps its place
DictPut(keys, k) == IF \E i \in 1..Len(keys) : keys[i] = k THEN keys ELSE Append(keys, k)

RECURSIVE DictOfLines(_, _)
DictOfLines(lines, keys) ==
    IF lines = <<>> THEN keys
    ELSE LET vmid == Join(Strip(Head(lines)))
         IN  DictOfLines(Tail(lines), IF IsDigit(vmid) THEN DictPut(keys, vmid) ELSE keys)

getvms_onbox(resp) ==
    IF Strip(resp) = <<>> THEN <<>>
    ELSE DictOfLines(Split(Strip(resp), "\n"), <<>>)

RECURSIVE us_DictOfLines(_, _)
us_DictOfLines(lines, keys) ==
    IF lines = <<>> THEN keys
    ELSE LET vmid == Join(Split(Head(lines), ":")[1])
         IN  us_DictOfLines(Tail(lines), IF IsDigit(vmid) THEN DictPut(keys, vmid) ELSE keys)

us_getvms_onbox(resp) ==
    IF resp = <<>> THEN <<>>
    ELSE us_DictOfLines(Split(resp, "\n"), <<>>)

getvmpowerstate_onbox(resp) ==
    LET r == FieldOf(resp, "powerState") IN IF r = NotFound THEN "unknown" ELSE r

us_getvmpowerstate_onbox(resp) ==
    LET r == FieldOf(resp, "powerState") IN IF r = NotFound THEN PyNone ELSE r

check_vmware_tools_status(resp) ==
    LET r == FieldOf(resp, "toolsStatus") IN IF r = NotFound THEN PyNone ELSE r

\* a test that takes any reported status for a usable one
ToolsUsable_AnyStatus(status) == status # PyNone /\ status # ""

\* `status and status.lower() in ("toolsok", "toolsold")`
ToolsUsable(status) ==
    /\ status # PyNone
    /\ status # ""
    /\ Lower(status) \in {"toolsok", "toolsold"}

\* `mm_status.lower() == "enabled"` on the stripped output
MmReports(resp, word) == Lower(Join(Strip(resp))) = word

\* the verdict test of main()
UpgradeSucceeded(resp) == Contains(resp, SuccessMarker) /\ Contains(resp, RebootMarker)

\* ------------------------------------------------------------------ state
VARIABLES
    script,      \* which of the two scripts runs: "v4" or "us"
    pc,          \* position in the script
    exit_status, \* process exit status once pc = "done" (-1 while running)
    uncaught,    \* TRUE when the process ended by an uncaught exception
    issued,      \* kinds of command handed to the shell so far
    file_found,  \* outcome of the `in directory_contents` test: "unset", "True", "False"
    vms,         \* keys of the vms dict, in insertion order (the order `for` visits)
    idx,         \* position of the running for-loop in vms
    auto_vm_power_on_sequence,
    powerstate,  \* vmid -> power state read when the VM was examined
    tools,       \* vmid -> toolsStatus read by shutdownvm_onbox
    power_state, \* main(): the power state read last in a `for vmid in vms` loop
    ps,          \* graceful_shutdown_onbox: the power state its last poll read
    attempts,    \* iterations done by the polling loop in graceful_shutdown_onbox
    saw_on,      \* of these, the ones that read poweredOn
    mm_polls,    \* iterations done by the polling loop in maintenancemode_onbox
    mm_ok,       \* result of maintenancemode_onbox(True): "unset", "True", "False"
    upgrade_resp,\* output of the upgrade command
    autostart,   \* vmid -> start order sent in update_autostartentry (0: none)
    shutdowns,   \* vmid -> number of power.shutdown commands
    poweroffs,   \* vmid -> number of power.off commands
    polled,      \* vmid -> number of get.summary polls after power.shutdown, capped at 1
    poweron      \* vmid -> number of power.on commands

vars == <<script, pc, exit_status, uncaught, issued, file_found, vms, idx,
          auto_vm_power_on_sequence, powerstate, tools, power_state, ps,
          attempts, saw_on, mm_polls, mm_ok, upgrade_resp, autostart, shutdowns, poweroffs,
          polled, poweron>>

NoText == <<"<unset>">>
Unread == "<unread>"

Init ==
    /\ script \in {"v4", "us"}
    /\ pc = "pwd"
    /\ exit_status = -1
    /\ uncaught = FALSE
    /\ issued = {}
    /\ file_found = "unset"
    /\ vms = <<>>
    /\ idx = 1
    /\ auto_vm_power_on_sequence = 0
    /\ powerstate = [v \in VmIds |-> Unread]
    /\ tools = [v \in VmIds |-> Unread]
    /\ power_state = Unread
    /\ ps = Unread
    /\ attempts = 0
    /\ saw_on = 0
    /\ mm_polls = 0
    /\ mm_ok = "unset"
    /\ upgrade_resp = NoText
    /\ autostart = [v \in VmIds |-> 0]
    /\ shutdowns = [v \in VmIds |-> 0]
    /\ poweroffs = [v \in VmIds |-> 0]
    /\ polled = [v \in VmIds |-> 0]
    /\ poweron = [v \in VmIds |-> 0]

\* sendcommand_onbox(command): the command reaches the shell
Send(kind) == issued' = issued \cup {kind}

\* sys.exit(n), or the end of the script (status 0)
Exit(n) == pc' = "done" /\ exit_status' = n /\ uncaught' = FALSE

\* an exception nothing catches: traceback, interpreter exit status 1
Raise == pc' = "done" /\ exit_status' = 1 /\ uncaught' = TRUE

Goto(l) == pc' = l /\ UNCHANGED <<exit_status, uncaught>>

VmHistory == <<powerstate, tools, autostart, shutdowns, poweroffs, polled, poweron>>
Locals == <<attempts, saw_on, mm_polls>>

\* =============================================== esxi_onbox_upgrade_v4.py
Pwd ==
    /\ script = "v4" /\ pc = "pwd"
    /\ Send("pwd")
    /\ Goto("ls")
    /\ UNCHANGED <<script, file_found, power_state, ps, vms, idx, auto_vm_power_on_sequence, mm_ok, upgrade_resp,
                   VmHistory, Locals>>

CheckFile ==
    /\ script = "v4" /\ pc = "ls"
    /\ Send("ls")
    /\ \E directory_contents \in DirectoryTexts :
          IF ~Contains(directory_contents, UPGRADE_FILENAME)
          THEN file_found' = "False" /\ Exit(1)
          ELSE file_found' = "True" /\ Goto("enable_ssh")
    /\ UNCHANGED <<script, power_state, ps, vms, idx, auto_vm_power_on_sequence, mm_ok, upgrade_resp,
                   VmHistory, Locals>>

EnableSsh ==
    /\ script = "v4" /\ pc = "enable_ssh"
    /\ Send("enable_ssh")
    /\ Goto("enable_autostart")
    /\ UNCHANGED <<script, file_found, power_state, ps, vms, idx, auto_vm_power_on_sequence, mm_ok, upgrade_resp,
                   VmHistory, Locals>>

EnableAutostart ==
    /\ script = "v4" /\ pc = "enable_autostart"
    /\ Send("enable_autostart")
    /\ Goto("getallvms")
    /\ UNCHANGED <<script, file_found, power_state, ps, vms, idx, auto_vm_power_on_sequence, mm_ok, upgrade_resp,
                   VmHistory, Locals>>

\* vms = getvms_onbox(); the quiesce loop starts with the start order 1
GetVms ==
    /\ script = "v4" /\ pc = "getallvms"
    /\ Send("getallvms")
    /\ \E fields \in Listings : vms' = getvms_onbox(ListingText(fields))
    /\ idx' = 1
    /\ auto_vm_power_on_sequence' = 1
    /\ Goto("examine")
    /\ UNCHANGED <<script, file_found, power_state, ps, mm_ok, upgrade_resp, VmHistory, Locals>>

\* the for-loop of step 5 is over (or vms is empty): step 6 follows
QuiesceDone ==
    /\ script = "v4" /\ pc = "examine" /\ idx > Len(vms)
    /\ Goto("mm_enable")
    /\ ps' = Unread
    /\ UNCHANGED <<script, file_found, power_state, issued, vms, idx, auto_vm_power_on_sequence, mm_ok,
                   upgrade_resp, VmHistory, Locals>>

\* power_state = getvmpowerstate_onbox(vmid); if power_state == "poweredOn"
ExamineVm ==
    /\ script = "v4" /\ pc = "examine" /\ idx <= Len(vms)
    /\ Send("get.summary")
    /\ \E resp \in SummaryTexts :
          IF getvmpowerstate_onbox(resp) = IndexError
          THEN Raise /\ UNCHANGED <<idx, powerstate, power_state>>
          ELSE /\ power_state' = getvmpowerstate_onbox(resp)
               /\ powerstate' = [powerstate EXCEPT ![vms[idx]] = power_state']
               /\ IF power_state' = "poweredOn"
                  THEN Goto("autostart") /\ UNCHANGED idx
                  ELSE Goto("examine") /\ idx' = idx + 1
    /\ ps' = Unread
    /\ UNCHANGED <<script, file_found, vms, auto_vm_power_on_sequence, mm_ok, upgrade_resp,
                   tools, autostart, shutdowns, poweroffs, polled, poweron, Locals>>

\* a start order taken from the position in the loop
StartOrder_LoopIndex == idx

\* the start order formatted into the update_autostartentry command
StartOrder == auto_vm_power_on_sequence

UpdateAutostartEntry ==
    /\ script = "v4" /\ pc = "autostart"
    /\ Send("update_autostartentry")
    /\ autostart' = [autostart EXCEPT ![vms[idx]] = StartOrder]
    /\ Goto("tools")
    /\ UNCHANGED <<script, file_found, power_state, ps, vms, idx, auto_vm_power_on_sequence, mm_ok, upgrade_resp,
                   powerstate, tools, shutdowns, poweroffs, polled, poweron, Locals>>

\* shutdownvm_onbox: status = check_vmware_tools_status(vmid), then the branch
CheckTools ==
    /\ script = "v4" /\ pc = "tools"
    /\ Send("get.guest")
    /\ \E resp \in GuestTexts :
          LET status == check_vmware_tools_status(resp) IN
          IF status = IndexError
          THEN Raise /\ UNCHANGED tools
          ELSE /\ tools' = [tools EXCEPT ![vms[idx]] = status]
               /\ IF ToolsUsable(status) THEN Goto("shutdown") ELSE Goto("poweroff")
    /\ UNCHANGED <<script, file_found, power_state, ps, vms, idx, auto_vm_power_on_sequence, mm_ok, upgrade_resp,
                   powerstate, autostart, shutdowns, poweroffs, polled, poweron, Locals>>

\* graceful_shutdown_onbox: the power.shutdown request
PowerShutdown ==
    /\ script = "v4" /\ pc = "shutdown"
    /\ Send("power.shutdown")
    /\ shutdowns' = [shutdowns EXCEPT ![vms[idx]] = @ + 1]
    /\ attempts' = 0
    /\ saw_on' = 0
    /\ Goto("poll")
    /\ UNCHANGED <<script, file_found, power_state, ps, vms, idx, auto_vm_power_on_sequence, mm_ok, upgrade_resp,
                   powerstate, tools, autostart, poweroffs, polled, poweron, mm_polls>>

\* the quiesce loop moves on to the next VM: auto_vm_power_on_sequence += 1
NextVm ==
    /\ idx' = idx + 1
    /\ auto_vm_power_on_sequence' = auto_vm_power_on_sequence + 1
    /\ attempts' = 0
    /\ saw_on' = 0

\* a wait that gives up one poll early
PollBudgetLeft_OffByOne(n) == n < SHUTDOWN_TIMEOUT_PER_VM - 1

\* the loop condition of graceful_shutdown_onbox: range(SHUTDOWN_TIMEOUT_PER_VM)
PollBudgetLeft(n) == n < SHUTDOWN_TIMEOUT_PER_VM

\* `if ps != "poweredOn": return True`
GracefulDone(state) == state # "poweredOn"

\* one iteration of the loop of graceful_shutdown_onbox; leaving the loop
\* without a return makes shutdownvm_onbox force the power-off
PollShutdown ==
    /\ script = "v4" /\ pc = "poll" /\ PollBudgetLeft(attempts)
    /\ Send("get.summary")
    /\ polled' = [polled EXCEPT ![vms[idx]] = 1]
    /\ \E resp \in SummaryTexts :
          IF getvmpowerstate_onbox(resp) = IndexError
          THEN Raise /\ UNCHANGED <<idx, auto_vm_power_on_sequence, attempts, saw_on, ps>>
          ELSE /\ ps' = getvmpowerstate_onbox(resp)
               /\ IF GracefulDone(ps')
                  THEN Goto("examine") /\ NextVm
                  ELSE /\ attempts' = attempts + 1
                       /\ saw_on' = saw_on + (IF ps' = "poweredOn" THEN 1 ELSE 0)
                       /\ IF PollBudgetLeft(attempts + 1) THEN Goto("poll") ELSE Goto("poweroff")
                       /\ UNCHANGED <<idx, auto_vm_power_on_sequence>>
    /\ UNCHANGED <<script, file_found, power_state, vms, mm_ok, upgrade_resp, powerstate, tools, autostart,
                   shutdowns, poweroffs, poweron, mm_polls>>

\* poweroffvm_onbox(vmid), from either branch of shutdownvm_onbox
PowerOffVm ==
    /\ script = "v4" /\ pc = "poweroff"
    /\ Send("power.off")
    /\ poweroffs' = [poweroffs EXCEPT ![vms[idx]] = @ + 1]
    /\ NextVm
    /\ Goto("examine")
    /\ UNCHANGED <<script, file_found, power_state, ps, vms, mm_ok, upgrade_resp, powerstate, tools, autostart,
                   shutdowns, polled, poweron, mm_polls>>

\* maintenancemode_onbox(True): the enable command
MmEnable ==
    /\ script = "v4" /\ pc = "mm_enable"
    /\ Send("mm_enable")
    /\ mm_polls' = 0
    /\ Goto("mm_enter_poll")
    /\ UNCHANGED <<script, file_found, power_state, ps, vms, idx, auto_vm_power_on_sequence, mm_ok, upgrade_resp,
                   VmHistory, attempts, saw_on>>

\* an entry wait that gives up one poll early
EntryBudgetLeft_OffByOne(n) == n < MAINTENANCE_MODE_TIMEOUT - 1

\* an entry wait that polls once more than the range allows
EntryBudgetLeft_OneMore(n) == n <= MAINTENANCE_MODE_TIMEOUT

\* the loop condition of the entry wait: range(MAINTENANCE_MODE_TIMEOUT)
EntryBudgetLeft(n) == n < MAINTENANCE_MODE_TIMEOUT

\* a main() that does not look at the result
AfterEntry_IgnoreResult(ok) == "upgrade"

\* where main() goes with the result of maintenancemode_onbox(True)
AfterEntry(ok) == IF ok THEN "upgrade" ELSE "restore"

\* one iteration of the entry wait; `return True` on "enabled", `return False`
\* once the range is used up; main() then upgrades or starts the re-power loop
MmEnterPoll ==
    /\ script = "v4" /\ pc = "mm_enter_poll" /\ EntryBudgetLeft(mm_polls)
    /\ Send("mm_get")
    /\ \E resp \in MaintenanceTexts :
          IF MmReports(resp, "enabled")
          THEN /\ mm_ok' = "True"
               /\ mm_polls' = 0
               /\ Goto(AfterEntry(TRUE))
          ELSE IF EntryBudgetLeft(mm_polls + 1)
          THEN /\ mm_polls' = mm_polls + 1
               /\ Goto("mm_enter_poll")
               /\ UNCHANGED mm_ok
          ELSE /\ mm_ok' = "False"
               /\ mm_polls' = 0
               /\ Goto(AfterEntry(FALSE))
    /\ idx' = 1
    /\ UNCHANGED <<script, file_found, power_state, ps, vms, auto_vm_power_on_sequence, upgrade_resp, VmHistory,
                   attempts, saw_on>>

\* upgrade_resp = upgradehost_onbox(full_path_to_zip); both branches of step 8
\* begin with maintenancemode_onbox(False)
UpgradeHost ==
    /\ script = "v4" /\ pc = "upgrade"
    /\ Send("upgrade")
    /\ \E resp \in UpgradeTexts : upgrade_resp' = resp
    /\ Goto("mm_disable")
    /\ UNCHANGED <<script, file_found, power_state, ps, vms, idx, auto_vm_power_on_sequence, mm_ok, VmHistory, Locals>>

\* maintenancemode_onbox(False): the disable command
MmDisable ==
    /\ script = "v4" /\ pc = "mm_disable"
    /\ Send("mm_disable")
    /\ mm_polls' = 0
    /\ Goto("mm_exit_poll")
    /\ UNCHANGED <<script, file_found, power_state, ps, vms, idx, auto_vm_power_on_sequence, mm_ok, upgrade_resp,
                   VmHistory, attempts, saw_on>>

\* a main() that tries the upgrade again when the markers are missing
AfterExit_RetryUpgrade(resp) == IF UpgradeSucceeded(resp) THEN "reboot" ELSE "upgrade"

\* where main() goes after maintenancemode_onbox(False), whatever it returned
AfterExit(resp) == IF UpgradeSucceeded(resp) THEN "reboot" ELSE "restore"

\* one iteration of the exit wait: range(5); its result is not used by main()
MmExitPoll ==
    /\ script = "v4" /\ pc = "mm_exit_poll" /\ mm_polls < MM_EXIT_POLLS
    /\ Send("mm_get")
    /\ \E resp \in MaintenanceTexts :
          IF MmReports(resp, "disabled") \/ mm_polls + 1 >= MM_EXIT_POLLS
          THEN /\ mm_polls' = 0
               /\ Goto(AfterExit(upgrade_resp))
          ELSE /\ mm_polls' = mm_polls + 1
               /\ Goto("mm_exit_poll")
    /\ idx' = 1
    /\ UNCHANGED <<script, file_found, power_state, ps, vms, auto_vm_power_on_sequence, mm_ok, upgrade_resp,
                   VmHistory, attempts, saw_on>>

\* reboothost_onbox(), then main() returns: exit status 0
RebootHost ==
    /\ script = "v4" /\ pc = "reboot"
    /\ Send("reboot")
    /\ Exit(0)
    /\ UNCHANGED <<script, file_found, power_state, ps, vms, idx, auto_vm_power_on_sequence, mm_ok, upgrade_resp,
                   VmHistory, Locals>>

\* a re-power loop that starts everything not read poweredOn
NeedsPowerOn_NotOn(vmid, state) == state # "poweredOn"

\* `if power_state == "poweredOff"` of both re-power loops
NeedsPowerOn(vmid, state) == state = "poweredOff"

\* sys.exit(2) after the loop of step 6, sys.exit(3) after the loop of step 8
RestoreExitStatus == IF mm_ok = "False" THEN 2 ELSE 3

\* one iteration of `for vmid in vms` of a re-power loop, up to its command
RestoreQuery ==
    /\ script = "v4" /\ pc = "restore" /\ idx <= Len(vms)
    /\ Send("get.summary")
    /\ \E resp \in SummaryTexts :
          IF getvmpowerstate_onbox(resp) = IndexError
          THEN Raise /\ UNCHANGED <<idx, power_state>>
          ELSE /\ power_state' = getvmpowerstate_onbox(resp)
               /\ IF NeedsPowerOn(vms[idx], power_state')
                  THEN Goto("poweron") /\ UNCHANGED idx
                  ELSE Goto("restore") /\ idx' = idx + 1
    /\ UNCHANGED <<script, file_found, ps, vms, auto_vm_power_on_sequence, mm_ok, upgrade_resp,
                   VmHistory, Locals>>

\* poweron_onbox(vmid); its output is printed and not looked at
PowerOn ==
    /\ script = "v4" /\ pc = "poweron"
    /\ Send("power.on")
    /\ poweron' = [poweron EXCEPT ![vms[idx]] = @ + 1]
    /\ idx' = idx + 1
    /\ Goto("restore")
    /\ UNCHANGED <<script, file_found, power_state, ps, vms, auto_vm_power_on_sequence, mm_ok, upgrade_resp,
                   powerstate, tools, autostart, shutdowns, poweroffs, polled, Locals>>

\* the re-power loop is over: sys.exit(2) or sys.exit(3)
RestoreDone ==
    /\ script = "v4" /\ pc = "restore" /\ idx > Len(vms)
    /\ Exit(RestoreExitStatus)
    /\ UNCHANGED <<script, file_found, power_state, ps, issued, vms, idx, auto_vm_power_on_sequence, mm_ok,
                   upgrade_resp, VmHistory, Locals>>

\* ======================================================== upgrade-script.py
us_Pwd ==
    /\ script = "us" /\ pc = "pwd"
    /\ Send("pwd")
    /\ Goto("ls")
    /\ UNCHANGED <<script, file_found, power_state, ps, vms, idx, auto_vm_power_on_sequence, mm_ok, upgrade_resp,
                   VmHistory, Locals>>

\* the status of `exit(0)` on the file-not-found branch
us_NotFoundStatus == 0

us_CheckFile ==
    /\ script = "us" /\ pc = "ls"
    /\ Send("ls")
    /\ \E directory_contents \in DirectoryTexts :
          IF Contains(directory_contents, us_file_name)
          THEN file_found' = "True" /\ Goto("enable_ssh")
          ELSE file_found' = "False" /\ Exit(us_NotFoundStatus)
    /\ UNCHANGED <<script, power_state, ps, vms, idx, auto_vm_power_on_sequence, mm_ok, upgrade_resp,
                   VmHistory, Locals>>

us_EnableSsh ==
    /\ script = "us" /\ pc = "enable_ssh"
    /\ Send("enable_ssh")
    /\ Goto("enable_autostart")
    /\ UNCHANGED <<script, file_found, power_state, ps, vms, idx, auto_vm_power_on_sequence, mm_ok, upgrade_resp,
                   VmHistory, Locals>>

us_EnableAutostart ==
    /\ script = "us" /\ pc = "enable_autostart"
    /\ Send("enable_autostart")
    /\ Goto("getallvms")
    /\ UNCHANGED <<script, file_found, power_state, ps, vms, idx, auto_vm_power_on_sequence, mm_ok, upgrade_resp,
                   VmHistory, Locals>>

us_GetVms ==
    /\ script = "us" /\ pc = "getallvms"
    /\ Send("getallvms")
    /\ \E fields \in Listings : vms' = us_getvms_onbox(us_ListingText(fields))
    /\ idx' = 1
    /\ Goto("discover")
    /\ UNCHANGED <<script, file_found, power_state, ps, auto_vm_power_on_sequence, mm_ok, upgrade_resp, VmHistory, Locals>>

\* powerstate[vms[i]] = getvmpowerstate_onbox(vms[i])
us_Discover ==
    /\ script = "us" /\ pc = "discover" /\ idx <= Len(vms)
    /\ Send("get.summary")
    /\ \E resp \in SummaryTexts :
          LET state == us_getvmpowerstate_onbox(resp) IN
          IF state = IndexError
          THEN Raise /\ UNCHANGED <<idx, powerstate>>
          ELSE /\ powerstate' = [powerstate EXCEPT ![vms[idx]] = state]
               /\ idx' = idx + 1
               /\ Goto("discover")
    /\ UNCHANGED <<script, file_found, power_state, ps, vms, auto_vm_power_on_sequence, mm_ok, upgrade_resp,
                   tools, autostart, shutdowns, poweroffs, polled, poweron, Locals>>

\* `print(powerstate[i] + "\n")` for every entry: None + str raises TypeError;
\* then auto_vm_power_on_sequence = 1 and the power-down loop starts
us_DumpPowerstate ==
    /\ script = "us" /\ pc = "discover" /\ idx > Len(vms)
    /\ IF \E i \in 1..Len(vms) : powerstate[vms[i]] = PyNone
       THEN Raise /\ UNCHANGED <<idx, auto_vm_power_on_sequence>>
       ELSE /\ idx' = 1
            /\ auto_vm_power_on_sequence' = 1
            /\ Goto("quiesce")
    /\ UNCHANGED <<script, file_found, power_state, ps, issued, vms, mm_ok, upgrade_resp, VmHistory, Locals>>

\* a power-down loop that counts the start order up for every key
us_SkipVm_ConsumesOrder ==
    /\ script = "us" /\ pc = "quiesce" /\ idx <= Len(vms)
    /\ powerstate[vms[idx]] # "poweredOn"
    /\ idx' = idx + 1
    /\ auto_vm_power_on_sequence' = auto_vm_power_on_sequence + 1
    /\ Goto("quiesce")
    /\ UNCHANGED <<script, file_found, power_state, ps, issued, vms, mm_ok, upgrade_resp,
                   VmHistory, Locals>>

\* `if powerstate[i] == "poweredOn"` is false: next key
us_SkipVm ==
    /\ script = "us" /\ pc = "quiesce" /\ idx <= Len(vms)
    /\ powerstate[vms[idx]] # "poweredOn"
    /\ idx' = idx + 1
    /\ Goto("quiesce")
    /\ UNCHANGED <<script, file_found, power_state, ps, issued, vms, auto_vm_power_on_sequence, mm_ok, upgrade_resp,
                   VmHistory, Locals>>

us_UpdateAutostartEntry ==
    /\ script = "us" /\ pc = "quiesce" /\ idx <= Len(vms)
    /\ powerstate[vms[idx]] = "poweredOn"
    /\ Send("update_autostartentry")
    /\ autostart' = [autostart EXCEPT ![vms[idx]] = StartOrder]
    /\ Goto("poweroff")
    /\ UNCHANGED <<script, file_found, power_state, ps, vms, idx, auto_vm_power_on_sequence, mm_ok, upgrade_resp,
                   powerstate, tools, shutdowns, poweroffs, polled, poweron, Locals>>

\* poweroffvm_onbox(i); auto_vm_power_on_sequence += 1
us_PowerOffVm ==
    /\ script = "us" /\ pc = "poweroff"
    /\ Send("power.off")
    /\ poweroffs' = [poweroffs EXCEPT ![vms[idx]] = @ + 1]
    /\ NextVm
    /\ Goto("quiesce")
    /\ UNCHANGED <<script, file_found, power_state, ps, vms, mm_ok, upgrade_resp, powerstate, tools, autostart,
                   shutdowns, polled, poweron, mm_polls>>

\* maintenancemode_onbox(True): the command is sent and its output printed;
\* nothing is read back
us_MmEnable ==
    /\ script = "us" /\ pc = "quiesce" /\ idx > Len(vms)
    /\ Send("mm_enable")
    /\ Goto("upgrade")
    /\ UNCHANGED <<script, file_found, power_state, ps, vms, idx, auto_vm_power_on_sequence, mm_ok, upgrade_resp,
                   VmHistory, Locals>>

\* upgradehost_onbox(remotepath): the output is printed; main does not use it
us_UpgradeHost ==
    /\ script = "us" /\ pc = "upgrade"
    /\ Send("upgrade")
    /\ \E resp \in UpgradeTexts : upgrade_resp' = resp
    /\ Goto("mm_disable")
    /\ UNCHANGED <<script, file_found, power_state, ps, vms, idx, auto_vm_power_on_sequence, mm_ok, VmHistory, Locals>>

us_MmDisable ==
    /\ script = "us" /\ pc = "mm_disable"
    /\ Send("mm_disable")
    /\ Goto("reboot")
    /\ UNCHANGED <<script, file_found, power_state, ps, vms, idx, auto_vm_power_on_sequence, mm_ok, upgrade_resp,
                   VmHistory, Locals>>

\* reboothost_onbox(), print("Complete!"), end of script
us_RebootHost ==
    /\ script = "us" /\ pc = "reboot"
    /\ Send("reboot")
    /\ Exit(0)
    /\ UNCHANGED <<script, file_found, power_state, ps, vms, idx, auto_vm_power_on_sequence, mm_ok, upgrade_resp,
                   VmHistory, Locals>>

\* ------------------------------------------------------------ specification
Next ==
    \/ Pwd
    \/ CheckFile
    \/ EnableSsh
    \/ EnableAutostart
    \/ GetVms
    \/ QuiesceDone
    \/ ExamineVm
    \/ UpdateAutostartEntry
    \/ CheckTools
    \/ PowerShutdown
    \/ PollShutdown
    \/ PowerOffVm
    \/ MmEnable
    \/ MmEnterPoll
    \/ UpgradeHost
    \/ MmDisable
    \/ MmExitPoll
    \/ RebootHost
    \/ RestoreQuery
    \/ PowerOn
    \/ RestoreDone
    \/ us_Pwd
    \/ us_CheckFile
    \/ us_EnableSsh
    \/ us_EnableAutostart
    \/ us_GetVms
    \/ us_Discover
    \/ us_DumpPowerstate
    \/ us_SkipVm
    \/ us_UpdateAutostartEntry
    \/ us_PowerOffVm
    \/ us_MmEnable
    \/ us_UpgradeHost
    \/ us_MmDisable
    \/ us_RebootHost

Spec == Init /\ [][Next]_vars

TypeOK ==
    /\ script \in {"v4", "us"}
    /\ exit_status \in {-1, 0, 1, 2, 3}
    /\ uncaught \in BOOLEAN
    /\ idx \in 1..(MaxVMs + 1)
    /\ attempts \in 0..SHUTDOWN_TIMEOUT_PER_VM
    /\ mm_polls \in 0..MAINTENANCE_MODE_TIMEOUT
    /\ \A v \in VmIds : poweroffs[v] \in 0..1 /\ shutdowns[v] \in 0..1 /\ poweron[v] \in 0..1
    /\ power_state \in {Unread, "poweredOn", "poweredOff", "suspended", "unknown"}
    /\ ps \in {Unread, "poweredOn", "poweredOff", "suspended", "unknown"}

\* ==================================================================== claims
On == "poweredOn"

\* the workloads read poweredOn when the run examined them
RestoreSet == {v \in VmIds : powerstate[v] = On}

\* C1 (as stated): in esxi_onbox_upgrade_v4.py a power.on command goes only to
\* workloads that were read poweredOn at discovery.
C1_PowerOnOnlyRestoreSet ==
    script = "v4" => \A v \in VmIds : poweron[v] > 0 => v \in RestoreSet

\* C2 (as stated): in esxi_onbox_upgrade_v4.py a run whose entry wait timed out
\* ends with exit status 2 and every workload of the restore set has received
\* a power.on command.
C2_EntryTimeoutRepowersAll ==
    (script = "v4" /\ mm_ok = "False" /\ pc = "done")
        => (exit_status = 2 /\ \A v \in RestoreSet : poweron[v] >= 1)

\* C3 (as stated): in esxi_onbox_upgrade_v4.py a run that entered maintenance
\* mode and whose upgrade output lacks a marker ends with exit status 3, with
\* the disable command issued, every workload of the restore set re-powered
\* and no reboot command.
C3_BadVerdictRestores ==
    (script = "v4" /\ pc = "done" /\ mm_ok = "True" /\ ~UpgradeSucceeded(upgrade_resp))
        => /\ "mm_disable" \in issued
           /\ "reboot" \notin issued
           /\ exit_status = 3
           /\ \A v \in RestoreSet : poweron[v] >= 1

\* C4 (as stated): in esxi_onbox_upgrade_v4.py status 0 goes with the reboot
\* command, the reboot command with package found, entry succeeded and both
\* markers present, and status 1, 2, 3 with package not found, entry failed and
\* a verdict that is not success.
C4_ExitStatusIsPath ==
    (script = "v4" /\ pc = "done")
        => /\ (exit_status = 0) <=> ("reboot" \in issued)
           /\ ("reboot" \in issued) <=>
                 (file_found = "True" /\ mm_ok = "True" /\ UpgradeSucceeded(upgrade_resp))
           /\ (exit_status = 1) <=> (file_found = "False")
           /\ (exit_status = 2) <=> (mm_ok = "False")
           /\ (exit_status = 3) <=> (mm_ok = "True" /\ ~UpgradeSucceeded(upgrade_resp))

\* C5: in esxi_onbox_upgrade_v4.py the upgrade command is issued only after
\* the entry wait returned success, and a run whose entry wait timed out issues
\* neither the upgrade nor the reboot command.
C5_UpgradeOnlyAfterEntry ==
    script = "v4"
        => /\ ("upgrade" \in issued => mm_ok = "True")
           /\ (mm_ok = "False" => ("upgrade" \notin issued /\ "reboot" \notin issued))

\* C5 witness: a run whose entry wait timed out has ended.
C5_Witness == script = "v4" /\ mm_ok = "False" /\ pc = "done" /\ exit_status = 2

\* C6 (as stated): in upgrade-script.py the reboot command is issued only when
\* maintenance mode was confirmed entered and the upgrade output shows success
\* with reboot required.
C6_RebootOnlyOnSuccess ==
    (script = "us" /\ "reboot" \in issued)
        => (mm_ok = "True" /\ UpgradeSucceeded(upgrade_resp))

\* C7 (as stated): in both scripts a run that does not find the package ends
\* with exit status 1 and has issued only the directory queries.
C7_NotFoundExitsOne ==
    (pc = "done" /\ file_found = "False")
        => (exit_status = 1 /\ issued \subseteq {"pwd", "ls"})

\* C8: a power.off for a workload whose tools status is toolsOk or toolsOld is
\* issued only after a power.shutdown for it and after SHUTDOWN_TIMEOUT_PER_VM
\* polls that each read poweredOn.
C8_GracefulBeforeForced ==
    [][\A v \in VmIds :
          (script = "v4" /\ tools[v] \in {"toolsOk", "toolsOld"} /\ poweroffs'[v] > poweroffs[v])
              => /\ shutdowns[v] >= 1
                 /\ polled[v] = 1
                 /\ attempts = SHUTDOWN_TIMEOUT_PER_VM
                 /\ saw_on = SHUTDOWN_TIMEOUT_PER_VM]_vars

\* C8 witness: a workload with usable tools was forced off after its wait.
C8_Witness ==
    \E v \in VmIds : script = "v4" /\ tools[v] = "toolsOk" /\ shutdowns[v] = 1 /\ poweroffs[v] = 1

\* C9 (as stated): a workload whose tools status is toolsNotInstalled,
\* toolsNotRunning, any value that is none of the four recognised ones, or not
\* found gets exactly one power.off, no power.shutdown and no poll: from the
\* moment the status is read, the power.off is the next and only command.
ForcedOnly(v) ==
    /\ shutdowns[v] = 0
    /\ polled[v] = 0
    /\ \/ poweroffs[v] = 1
       \/ poweroffs[v] = 0 /\ pc = "poweroff" /\ vms[idx] = v

Registered == {i \in 1..Len(vms) : autostart[vms[i]] > 0}
C10_StartOrder ==
    /\ \A i \in Registered : autostart[vms[i]] = Cardinality({j \in Registered : j <= i})
    /\ \A v \in VmIds : autostart[v] > 0 => (v \in RestoreSet /\ \E i \in 1..Len(vms) : vms[i] = v)
    /\ \A v \in VmIds : (shutdowns[v] > 0 \/ poweroffs[v] > 0) => autostart[v] > 0

\* C10 witness: the last two workloads of the listing were registered with the
\* start orders 1 and 2 and powered off.
C10_Witness ==
    /\ Len(vms) >= 2
    /\ autostart[vms[Len(vms) - 1]] = 1
    /\ autostart[vms[Len(vms)]] = 2
    /\ poweroffs[vms[Len(vms) - 1]] = 1
    /\ poweroffs[vms[Len(vms)]] = 1

\* C11 (as stated): no exception propagates past main() of
\* esxi_onbox_upgrade_v4.py: whatever text the commands return, a finished run
\* has one of the exit statuses 0, 1, 2, 3 and did not end with an uncaught
\* error.
C11_NoUncaughtError ==
    (script = "v4" /\ pc = "done") => (~uncaught /\ exit_status \in {0, 1, 2, 3})

\* C12 (as stated): on both early-exit branches of esxi_onbox_upgrade_v4.py
\* (entry wait failed, upgrade verdict failed) the maintenance-mode disable
\* command has been issued before the first power.on of the restore and before
\* the run ends.
InRestore == pc \in {"restore", "poweron"}
EarlyExit ==
    \/ mm_ok = "False"
    \/ mm_ok = "True" /\ "upgrade" \in issued /\ ~UpgradeSucceeded(upgrade_resp)
C12_DisableBeforeRestore ==
    (script = "v4" /\ EarlyExit /\ (InRestore \/ "power.on" \in issued \/ pc = "done"))
        => "mm_disable" \in issued

\* C13 (as stated): in both scripts every power-state reading that decides
\* whether a workload is registered and quiesced is made before the first
\* power.shutdown or power.off of the run: once one of these was issued, every
\* listed workload has its reading.
C13_SnapshotBeforeShutdown ==
    ("power.shutdown" \in issued \/ "power.off" \in issued)
        => \A i \in 1..Len(vms) : powerstate[vms[i]] # Unread

\* C14 (as stated): in esxi_onbox_upgrade_v4.py a workload's quiesce completes
\* without a forced power.off only if a power-state poll read poweredOff; a
\* poll that read unknown is never taken as the confirmation.
JustQuiesced ==
    script = "v4" /\ pc = "examine" /\ idx > 1 /\ ps # Unread
GracefulConfirmed ==
    JustQuiesced /\ shutdowns[vms[idx - 1]] = 1 /\ poweroffs[vms[idx - 1]] = 0
C14_ConfirmedOffOnly ==
    GracefulConfirmed => ps = "poweredOff"

\* C15 (as stated): in esxi_onbox_upgrade_v4.py the outcome of the (at most 5)
\* exit polls changes nothing: a finished run that sent the disable command
\* after an upgrade with both markers has sent reboot and has status 0, and
\* one after an upgrade without them has gone through the restore loop over
\* every listed workload and has status 3.
C15_ExitPollNotFatal ==
    (script = "v4" /\ pc = "done" /\ "mm_disable" \in issued)
        => IF UpgradeSucceeded(upgrade_resp)
           THEN "reboot" \in issued /\ exit_status = 0
           ELSE idx > Len(vms) /\ exit_status = 3

\* C16: maintenancemode_onbox(True) of esxi_onbox_upgrade_v4.py sends the
\* enable command once, at its start; every iteration of its wait sends the
\* get command again; the wait ends with success at a poll that reads enabled,
\* after which no further entry poll is made, and ends with failure exactly at
\* the MAINTENANCE_MODE_TIMEOUT-th consecutive poll that did not read enabled.
C16_EntryWait ==
    [][script = "v4" =>
          /\ pc = "mm_enable" => "mm_enable" \notin issued /\ mm_ok = "unset"
          /\ pc' = "mm_enable" => pc \in {"examine", "mm_enable"}
          /\ ("mm_enable" \in issued' /\ "mm_enable" \notin issued)
                => (pc = "mm_enable" /\ pc' = "mm_enter_poll" /\ mm_polls' = 0)
          /\ pc = "mm_enter_poll"
                => /\ mm_ok = "unset" /\ "mm_enable" \in issued
                   /\ mm_polls < MAINTENANCE_MODE_TIMEOUT
                   /\ "mm_get" \in issued'
                   /\ pc' = pc => (mm_polls' = mm_polls + 1 /\ mm_ok' = "unset")
          /\ pc' = "mm_enter_poll" => pc \in {"mm_enable", "mm_enter_poll"}
          /\ mm_ok' # mm_ok
                => /\ pc = "mm_enter_poll" /\ mm_ok = "unset"
                   /\ mm_ok' = "True" => pc' = "upgrade"
                   /\ mm_ok' = "False"
                         => (pc' = "restore" /\ mm_polls = MAINTENANCE_MODE_TIMEOUT - 1)
          /\ (pc = "mm_enter_poll" /\ mm_polls = MAINTENANCE_MODE_TIMEOUT - 1 /\ mm_ok' = "unset")
                => FALSE]_vars

\* C16 witness: the 45th poll did not read enabled and the wait has returned
\* failure to main(), which is about to start its re-power loop.
C16_Witness ==
    script = "v4" /\ mm_ok = "False" /\ pc = "restore" /\ idx = 1 /\ poweron = [v \in VmIds |-> 0]

\* C17: in a re-power loop of esxi_onbox_upgrade_v4.py a power.on goes to the
\* workload whose power state the step before has just been queried and read
\* poweredOff, never to one read otherwise; after a power.on, whatever it
\* printed, the loop goes on with the next workload of the listing; the loop
\* takes the workloads one by one in listing order and is left by sys.exit
\* only past the last one.
C17_RestoreStep ==
    [][script = "v4" =>
          /\ pc' = "poweron"
                => /\ pc = "restore" /\ idx' = idx /\ idx <= Len(vms)
                   /\ "get.summary" \in issued'
                   /\ power_state' = "poweredOff"
          /\ pc = "poweron" => power_state = "poweredOff"
          /\ poweron' # poweron
                => /\ pc = "poweron"
                   /\ poweron' = [poweron EXCEPT ![vms[idx]] = @ + 1]
                   /\ pc' = "restore" /\ idx' = idx + 1 /\ ~uncaught'
          /\ pc = "poweron" => poweron' # poweron
          /\ (pc = "restore" /\ idx' # idx) => idx' = idx + 1
          /\ (pc = "restore" /\ pc' = "done" /\ ~uncaught') => idx > Len(vms)]_vars

\* C17 witness: the loop has sent power.on to the first workload of a listing
\* of two and is at the second one.
C17_Witness ==
    /\ script = "v4" /\ pc = "restore" /\ Len(vms) = 2 /\ idx = 2
    /\ poweron[vms[1]] = 1 /\ poweron[vms[2]] = 0
    /\ power_state = "poweredOff"

\* the run of the script under the assumption of C18 that every command
\* returns: a step that can be taken is taken
FairSpec == Spec /\ WF_vars(Next)

\* an upper bound of the number of steps esxi_onbox_upgrade_v4.py still takes
\* from the state it is in, as a function of the number of listed workloads
RestoreLeft(i) == 2 * (Len(vms) + 1 - i) + 1
AfterUpgradeLeft == 1 + MM_EXIT_POLLS + RestoreLeft(1)
AfterEnableLeft == MAINTENANCE_MODE_TIMEOUT + 1 + AfterUpgradeLeft
PerVmLeft == 4 + SHUTDOWN_TIMEOUT_PER_VM + 1
QuiesceLeft(i, n) == PerVmLeft * (n + 1 - i) + 2 + MAINTENANCE_MODE_TIMEOUT + 2 + MM_EXIT_POLLS + 2 * n + 1
StepsLeft ==
    CASE pc = "done" -> 0
      [] pc = "pwd" -> 5 + QuiesceLeft(1, MaxVMs)
      [] pc = "ls" -> 4 + QuiesceLeft(1, MaxVMs)
      [] pc = "enable_ssh" -> 3 + QuiesceLeft(1, MaxVMs)
      [] pc = "enable_autostart" -> 2 + QuiesceLeft(1, MaxVMs)
      [] pc = "getallvms" -> 1 + QuiesceLeft(1, MaxVMs)
      [] pc = "examine" -> QuiesceLeft(idx, Len(vms))
      [] pc = "autostart" -> QuiesceLeft(idx, Len(vms)) - 1
      [] pc = "tools" -> QuiesceLeft(idx, Len(vms)) - 2
      [] pc = "shutdown" -> QuiesceLeft(idx, Len(vms)) - 3
      [] pc = "poll" -> QuiesceLeft(idx + 1, Len(vms)) + 1 + SHUTDOWN_TIMEOUT_PER_VM - attempts
      [] pc = "poweroff" -> QuiesceLeft(idx + 1, Len(vms)) + 1
      [] pc = "mm_enable" -> 1 + AfterEnableLeft
      [] pc = "mm_enter_poll" -> AfterEnableLeft - mm_polls
      [] pc = "upgrade" -> AfterUpgradeLeft + 1
      [] pc = "mm_disable" -> AfterUpgradeLeft
      [] pc = "mm_exit_poll" -> AfterUpgradeLeft - 1 - mm_polls
      [] pc = "reboot" -> 1
      [] pc = "restore" -> RestoreLeft(idx)
      [] pc = "poweron" -> RestoreLeft(idx) - 1

\* C18: every run of esxi_onbox_upgrade_v4.py in which each command returns
\* ends; an entry wait makes at most 45 polls, an exit wait at most 5, a
\* graceful wait at most 10; and each step lowers a bound of the steps left
\* that is a function of the number of listed workloads only.
C18_Terminates ==
    /\ script = "v4" => <>(pc = "done")
    /\ [](script = "v4" =>
             /\ pc = "mm_enter_poll" => mm_polls < MAINTENANCE_MODE_TIMEOUT
             /\ pc = "mm_exit_poll" => mm_polls < MM_EXIT_POLLS
             /\ pc = "poll" => attempts < SHUTDOWN_TIMEOUT_PER_VM
             /\ StepsLeft >= 0)
    /\ [][script = "v4" => StepsLeft' < StepsLeft]_vars

\* C18 witness: a run that used up all 10 polls of a graceful wait, all 45
\* polls of the entry wait and went through the re-power loop has ended.
C18_Witness ==
    /\ script = "v4" /\ pc = "done" /\ exit_status = 2
    /\ \E v \in VmIds : shutdowns[v] = 1 /\ poweroffs[v] = 1

\* C19: the commands of a run of esxi_onbox_upgrade_v4.py come in the order
\* of main(): once the maintenance-mode enable command is out, no auto-start
\* registration, power.shutdown or power.off follows; the upgrade command is
\* sent at most once, after an entry wait that succeeded and before the
\* disable command; the reboot command is sent at most once, after the disable
\* command, and nothing is sent after it; no run sends both reboot and
\* power.on.
QuiesceCommands == {"update_autostartentry", "power.shutdown", "power.off"}
C19_CommandOrder ==
    [][script = "v4" =>
          /\ "mm_enable" \in issued
                => /\ autostart' = autostart /\ shutdowns' = shutdowns /\ poweroffs' = poweroffs
                   /\ issued' \cap QuiesceCommands = issued \cap QuiesceCommands
                   /\ pc' \notin {"autostart", "tools", "shutdown", "poll", "poweroff"}
          /\ ("upgrade" \in issued' /\ pc = "upgrade")
                => /\ "upgrade" \notin issued
                   /\ mm_ok = "True"
                   /\ "mm_disable" \notin issued
          /\ ("upgrade" \in issued' /\ "upgrade" \notin issued) => pc = "upgrade"
          /\ ("upgrade" \in issued /\ upgrade_resp' # upgrade_resp) => FALSE
          /\ ("reboot" \in issued' /\ pc = "reboot")
                => /\ "reboot" \notin issued
                   /\ "mm_disable" \in issued
                   /\ "power.on" \notin issued
          /\ ("reboot" \in issued' /\ "reboot" \notin issued) => (pc = "reboot" /\ pc' = "done")
          /\ "reboot" \in issued => issued' = issued
          /\ ~("reboot" \in issued' /\ "power.on" \in issued')]_vars

\* C19 witness: a run that quiesced a workload, entered maintenance mode,
\* upgraded, left maintenance mode and rebooted has ended.
C19_Witness ==
    /\ script = "v4" /\ pc = "done" /\ exit_status = 0
    /\ {"power.shutdown", "power.off", "mm_enable", "upgrade", "mm_disable", "reboot"} \subseteq issued

\* C20: in both scripts a listed workload whose power state, when the quiesce
\* loop examined it, was poweredOff or unknown (not found) has no auto-start
\* registration, no power.shutdown and no power.off, and takes no start order:
\* between two workloads the next start order to give is one more than the
\* number of workloads examined so far that were read poweredOn.
NotRunning == {"poweredOff", "unknown", PyNone}
BetweenWorkloads ==
    \/ script = "v4" /\ pc = "examine"
    \/ script = "us" /\ pc = "quiesce"
C20_NotRunningUntouched ==
    /\ \A v \in VmIds :
          powerstate[v] \in NotRunning
              => (autostart[v] = 0 /\ shutdowns[v] = 0 /\ poweroffs[v] = 0)
    /\ BetweenWorkloads
          => auto_vm_power_on_sequence
                = 1 + Cardinality({i \in 1..(idx - 1) : powerstate[vms[i]] = On})

\* C20 witness: the first workload of the listing was read unknown and left
\* alone, and the second one, read poweredOn, got the start order 1 and was
\* powered off.
C20_Witness ==
    /\ script = "v4" /\ Len(vms) = 2 /\ pc = "examine" /\ idx = 3
    /\ powerstate[vms[1]] = "unknown" /\ autostart[vms[1]] = 0
    /\ autostart[vms[2]] = 1 /\ poweroffs[vms[2]] = 1

====
